---- MODULE Spec2Model ----
(***************************************************************************)
(* OSM-Firefighter frontend: the graph viewer's refresh coordination.      *)
(*                                                                         *)
(* GraphViewerComponent.refreshView issues the /view (render) and          *)
(* /stepmeta (metadata) requests, with the two flags refreshing and        *)
(* pending; TurnInputComponent, ZoomInputComponent and ViewInputComponent  *)
(* hold the navigation values and each owns debounceTime +                 *)
(* distinctUntilChanged pipelines whose subscription emits onChange.       *)
(*                                                                         *)
(* Every handler (a DOM event handler, a timer expiry, an HTTP response    *)
(* callback, a FileReader load listener) runs to completion as one task of *)
(* the browser's event loop and is one action here.                        *)
(*                                                                         *)
(* Numbers.  Zoom is kept in hundredths (1 is 100).  Coordinates are       *)
(* integers of a unit in which the engine's bounds are multiples of 100,   *)
(* so that the step (max - min) / 100 is exact.                            *)
(***************************************************************************)
EXTENDS Integers, Sequences, FiniteSets, TLC

VARIABLES
  activeSimulation,  \* GraphViewerComponent.activeSimulation
  refreshing,        \* GraphViewerComponent.refreshing
  pending,           \* GraphViewerComponent.pending
  thumbnail,         \* GraphViewerComponent.thumbnail: <<>> or <<image>>
  simConfig,         \* GraphViewerComponent.simConfig: <<>> or <<config>>
  currentTurn,       \* TurnInputComponent.currentTurn
  maxTurn,           \* TurnInputComponent.maxTurn
  currentZoom,       \* ZoomInputComponent.currentZoom, in hundredths
  currentCoord,      \* ViewInputComponent.currentCoord
  minCoord,          \* ViewInputComponent.minCoord
  maxCoord,          \* ViewInputComponent.maxCoord
  pipe,              \* per axis: the debounceTime timer and the distinctUntilChanged memory
  renderReqs,        \* outstanding GET /view requests, in the order issued
  metaReqs,          \* outstanding GET /stepmeta requests: turn -> how many
  infoTurn,          \* MetaInfoBoxComponent.turn: <<>> or <<turn>>
  readers,           \* FileReaders that have not fired 'load' yet, in the order started
  owed,              \* history: refreshView was called during a fetch and no fetch was issued since
  overtaken,         \* history: how many of the oldest readers a younger one has overtaken
  simReqs,           \* outstanding POST /simulate requests: config -> how many
  committed,         \* history: per axis, the value at the last debounce expiry or reset
  nInputs,           \* history: raw user inputs so far
  nConfirms,         \* history: confirmed configuration dialogs so far
  probe,             \* history: the last call of a function checked on its own
  tally              \* history, kept when tally.on: refresh requests, fetches issued, views seen

vars == <<activeSimulation, refreshing, pending, thumbnail, simConfig,
          currentTurn, maxTurn, currentZoom, currentCoord, minCoord, maxCoord,
          pipe, renderReqs, metaReqs, infoTurn, readers, overtaken, simReqs,
          owed, committed, nInputs, nConfirms, probe, tally>>

viewerVars == <<activeSimulation, refreshing, pending, thumbnail, simConfig>>
axisVars == <<currentTurn, maxTurn, currentZoom, currentCoord, minCoord, maxCoord>>
netVars == <<renderReqs, metaReqs, infoTurn, readers, overtaken, simReqs>>

----------------------------------------------------------------------------
(* Bounds of the model                                                     *)

\* raw user inputs (typed turn, step button, zoom button, arrow key) in one run
MaxInputs == 2
\* configuration dialogs confirmed in one run
MaxConfirms == 2
\* /stepmeta requests outstanding at once
MaxMeta == 2
\* FileReaders reading at once
MaxReaders == 2
\* largest end_time the engine returns
MaxTurnBound == 2

----------------------------------------------------------------------------
(* Program constants                                                       *)

\* "step size is always 1% of the dif between max and min value"
StepDivisor == 100
\* ZoomInputComponent.currentZoom = 1, and the reset on a simulate response
DefaultZoom == 100

Axes == {"turn", "zoom", "lon", "lat"}

Min(a, b) == IF a <= b THEN a ELSE b
Max(a, b) == IF a >= b THEN a ELSE b

Turns == 0..MaxTurnBound
\* what the turn field can be set to: it takes any number, and one value above
\* every end_time stands for those out of range
RawTurns == 0..MaxTurnBound + 1
Configs == {1, 2}

\* What /simulate answers for a configuration (SimulationMetaData); view_center
\* is [lat, lon].  Configuration 1 puts the center less than one step below
\* max_lon; configuration 2 puts it on min_lat.
Engine(c) ==
  IF c = 1
  THEN [end_time |-> MaxTurnBound, view_center |-> <<100, 199>>,
        view_bounds |-> [min_lat |-> 0, max_lat |-> 200, min_lon |-> 0, max_lon |-> 200]]
  ELSE [end_time |-> 1, view_center |-> <<0, 100>>,
        view_bounds |-> [min_lat |-> 0, max_lat |-> 100, min_lon |-> 0, max_lon |-> 200]]

RemoveAt(s, i) == SubSeq(s, 1, i - 1) \o SubSeq(s, i + 1, Len(s))

BagCount(b) ==
  LET RECURSIVE Sum(_)
      Sum(S) == IF S = {} THEN 0 ELSE LET x == CHOOSE y \in S : TRUE IN b[x] + Sum(S \ {x})
  IN Sum(DOMAIN b)

----------------------------------------------------------------------------
(* The current value of an axis, and what a render request carries         *)

Cur(a) ==
  CASE a = "turn" -> currentTurn
    [] a = "zoom" -> currentZoom
    [] a = "lon" -> currentCoord.lon
    [] a = "lat" -> currentCoord.lat

\* graphservice.refreshView(turnInput.currentTurn, zoomInput.currentZoom, viewInput.currentCoord)
Snapshot(turn, zoom, coord) ==
  [turn |-> turn, zoom |-> zoom, lat |-> coord.lat, lon |-> coord.lon]

\* The part of the state refreshView and the response callbacks work on.
Viewer ==
  [activeSimulation |-> activeSimulation, refreshing |-> refreshing, pending |-> pending,
   renderReqs |-> renderReqs, metaReqs |-> metaReqs, readers |-> readers, owed |-> owed]

SetViewer(g) ==
  /\ activeSimulation' = g.activeSimulation
  /\ refreshing' = g.refreshing
  /\ pending' = g.pending
  /\ renderReqs' = g.renderReqs
  /\ metaReqs' = g.metaReqs
  /\ readers' = g.readers
  /\ owed' = g.owed

\* the model's cap on outstanding /stepmeta requests and FileReaders
WithinCaps(g) == BagCount(g.metaReqs) <= MaxMeta /\ Len(g.readers) <= MaxReaders

\* the committed value of every axis, as one view state
CommittedSnapshot ==
  [turn |-> committed["turn"], zoom |-> committed["zoom"],
   lat |-> committed["lat"], lon |-> committed["lon"]]

NoTally == [on |-> FALSE, sessions |-> 0, requests |-> 0, issued |-> 0, seen |-> {}]

\* the tally after a step that started s sessions, made r refresh requests
\* (calls of refreshView by a session start or an axis notification, in a
\* session), issued k render fetches and committed the view states in views;
\* a view state counts once for each session it was committed in
Tallied(s, r, k, views) ==
  IF tally.on
  THEN [on |-> TRUE, sessions |-> tally.sessions + s,
        requests |-> tally.requests + r, issued |-> tally.issued + k,
        seen |-> tally.seen \cup {[view |-> v, session |-> tally.sessions + s] : v \in views}]
  ELSE tally

----------------------------------------------------------------------------
(* MetaInfoBoxComponent                                                    *)

\* updateStepMetaData(turn): graphservice.getStepMetaData(turn).subscribe(...)
UpdateStepMetaData(meta, turn) == [meta EXCEPT ![turn] = @ + 1]

----------------------------------------------------------------------------
(* GraphViewerComponent.refreshView                                        *)

\* refreshView without the test of refreshing: every call issues a fetch
RefreshViewNoGuard(g, snap, via, win) ==
  IF g.activeSimulation
  THEN [g EXCEPT !.metaReqs = UpdateStepMetaData(@, snap.turn),
                 !.refreshing = TRUE,
                 !.renderReqs = Append(@, [snap |-> snap, via |-> via, win |-> win]),
                 !.owed = FALSE]
  ELSE g

\* refreshView without the test of activeSimulation
RefreshViewAlways(g, snap, via, win) ==
  LET m == [g EXCEPT !.metaReqs = UpdateStepMetaData(@, snap.turn)]
  IN IF ~m.refreshing
     THEN [m EXCEPT !.refreshing = TRUE,
                    !.renderReqs = Append(@, [snap |-> snap, via |-> via, win |-> win]),
                    !.owed = FALSE]
     ELSE [m EXCEPT !.pending = TRUE, !.owed = TRUE]

\* via (history) names the caller: "start", an axis, or "followup"; win
\* (history) is the number of raw inputs of the debounce window that led here.
RefreshView(g, snap, via, win) ==
  IF g.activeSimulation
  THEN LET m == [g EXCEPT !.metaReqs = UpdateStepMetaData(@, snap.turn)]
       IN IF ~m.refreshing
          THEN [m EXCEPT !.refreshing = TRUE,
                         !.renderReqs = Append(@, [snap |-> snap, via |-> via, win |-> win]),
                         !.owed = FALSE]
          ELSE [m EXCEPT !.pending = TRUE, !.owed = TRUE]
  ELSE g

\* createImageFromBlob(image): a FileReader is started; its 'load' listener runs later
CreateImageFromBlob(rs, req) == Append(rs, [turn |-> req.snap.turn])

\* a success callback whose follow-up sends again what the finished request carried
OnRenderSuccessStale(g, i, turn, zoom, coord) ==
  LET g1 == [g EXCEPT !.refreshing = FALSE,
                      !.renderReqs = RemoveAt(@, i),
                      !.readers = CreateImageFromBlob(@, g.renderReqs[i])]
  IN IF g1.pending
     THEN RefreshView([g1 EXCEPT !.pending = FALSE], g.renderReqs[i].snap, "followup", 0)
     ELSE g1

\* a success callback that calls refreshView again whether pending is set or not
OnRenderSuccessAlwaysFollowUp(g, i, turn, zoom, coord) ==
  LET g1 == [g EXCEPT !.refreshing = FALSE,
                      !.renderReqs = RemoveAt(@, i),
                      !.readers = CreateImageFromBlob(@, g.renderReqs[i])]
  IN RefreshView([g1 EXCEPT !.pending = FALSE], Snapshot(turn, zoom, coord), "followup", 0)

\* a success callback whose test of pending is inverted
OnRenderSuccessInvertedTest(g, i, turn, zoom, coord) ==
  LET g1 == [g EXCEPT !.refreshing = FALSE,
                      !.renderReqs = RemoveAt(@, i),
                      !.readers = CreateImageFromBlob(@, g.renderReqs[i])]
  IN IF ~g1.pending
     THEN RefreshView(g1, Snapshot(turn, zoom, coord), "followup", 0)
     ELSE g1

\* a success callback that issues its follow-up and leaves pending set
OnRenderSuccessKeepsPending(g, i, turn, zoom, coord) ==
  LET g1 == [g EXCEPT !.refreshing = FALSE,
                      !.renderReqs = RemoveAt(@, i),
                      !.readers = CreateImageFromBlob(@, g.renderReqs[i])]
  IN IF g1.pending
     THEN [RefreshView(g1, Snapshot(turn, zoom, coord), "followup", 0) EXCEPT !.pending = TRUE]
     ELSE g1

\* the success callback of the /view request
OnRenderSuccess(g, i, turn, zoom, coord) ==
  LET g1 == [g EXCEPT !.refreshing = FALSE,
                      !.renderReqs = RemoveAt(@, i),
                      !.readers = CreateImageFromBlob(@, g.renderReqs[i])]
  IN IF g1.pending
     THEN RefreshView([g1 EXCEPT !.pending = FALSE], Snapshot(turn, zoom, coord), "followup", 0)
     ELSE g1

\* an error callback that leaves refreshing set
OnRenderErrorKeepsFlag(g, i) == [g EXCEPT !.renderReqs = RemoveAt(@, i)]

\* an error callback that sends the request again
OnRenderErrorRetry(g, i) ==
  RefreshView([g EXCEPT !.refreshing = FALSE, !.renderReqs = RemoveAt(@, i)],
              Snapshot(currentTurn, currentZoom, currentCoord), "followup", 0)

\* the error callback of the /view request
OnRenderError(g, i) ==
  [g EXCEPT !.refreshing = FALSE, !.renderReqs = RemoveAt(@, i)]

\* a success callback that also puts the zoom back to its default
RenderSuccessResetsZoom(i) ==
  /\ i \in 1..Len(renderReqs)
  /\ LET g == OnRenderSuccess(Viewer, i, currentTurn, currentZoom, currentCoord)
     IN /\ WithinCaps(g) /\ SetViewer(g)
        /\ tally' = Tallied(0, 0, IF Len(g.renderReqs) = Len(renderReqs) THEN 1 ELSE 0, {})
  /\ currentZoom' = DefaultZoom
  /\ UNCHANGED <<overtaken, thumbnail, simConfig, currentTurn, maxTurn, currentCoord, minCoord,
                 maxCoord, pipe, infoTurn, simReqs, committed, nInputs, nConfirms, probe>>

RenderSuccess(i) ==
  /\ i \in 1..Len(renderReqs)
  /\ LET g == OnRenderSuccess(Viewer, i, currentTurn, currentZoom, currentCoord)
     IN /\ WithinCaps(g) /\ SetViewer(g)
        /\ tally' = Tallied(0, 0, IF Len(g.renderReqs) = Len(renderReqs) THEN 1 ELSE 0, {})
  /\ UNCHANGED <<overtaken, thumbnail, simConfig, axisVars, pipe, infoTurn, simReqs,
                 committed, nInputs, nConfirms, probe>>

RenderFailure(i) ==
  /\ i \in 1..Len(renderReqs)
  /\ SetViewer(OnRenderError(Viewer, i))
  /\ UNCHANGED <<overtaken, thumbnail, simConfig, axisVars, pipe, infoTurn, simReqs,
                 committed, nInputs, nConfirms, probe, tally>>

\* reader 'load' listener: this.thumbnail = reader.result.  The readers started
\* before this one and still reading are from now on overtaken (history): they
\* are the first `overtaken' of readers.
ReaderLoad(j) ==
  /\ j \in 1..Len(readers)
  /\ thumbnail' = <<readers[j]>>
  /\ readers' = RemoveAt(readers, j)
  /\ overtaken' = IF j > overtaken THEN j - 1 ELSE overtaken - 1
  /\ UNCHANGED <<owed, activeSimulation, refreshing, pending, simConfig, axisVars, pipe,
                 renderReqs, metaReqs, infoTurn, simReqs, committed, nInputs, nConfirms, probe, tally>>

\* getStepMetaData(turn) answers: this.turn = turn; this.stepMeta = data
MetaResponse(t) ==
  /\ t \in RawTurns /\ metaReqs[t] > 0
  /\ metaReqs' = [metaReqs EXCEPT ![t] = @ - 1]
  /\ infoTurn' = <<t>>
  /\ UNCHANGED <<owed, overtaken, viewerVars, axisVars, pipe, renderReqs, readers, simReqs,
                 committed, nInputs, nConfirms, probe, tally>>

\* a failure of getStepMetaData(turn) that ends the refresh in progress
MetaErrorStopsRefresh(t) ==
  /\ t \in RawTurns /\ metaReqs[t] > 0
  /\ metaReqs' = [metaReqs EXCEPT ![t] = @ - 1]
  /\ refreshing' = FALSE
  /\ UNCHANGED <<owed, overtaken, activeSimulation, pending, thumbnail, simConfig, axisVars, pipe,
                 renderReqs, infoTurn, readers, simReqs, committed, nInputs, nConfirms,
                 probe, tally>>

\* getStepMetaData(turn) fails: the subscription has no error callback
MetaError(t) ==
  /\ t \in RawTurns /\ metaReqs[t] > 0
  /\ metaReqs' = [metaReqs EXCEPT ![t] = @ - 1]
  /\ UNCHANGED <<owed, overtaken, viewerVars, axisVars, pipe, renderReqs, infoTurn, readers, simReqs,
                 committed, nInputs, nConfirms, probe, tally>>

----------------------------------------------------------------------------
(* debounceTime + distinctUntilChanged + subscribe, one pipeline per axis  *)

\* a pipeline that keeps the first value of a window instead of the latest
PushKeepFirst(p, v) ==
  IF p.timer = <<>> THEN [p EXCEPT !.timer = <<v>>, !.n = @ + 1] ELSE [p EXCEPT !.n = @ + 1]

\* a value enters the pipeline (Subject.next, FormControl.valueChanges):
\* debounceTime keeps the latest value only and restarts its timer
Push(p, v) == [p EXCEPT !.timer = <<v>>, !.n = @ + 1]

\* distinctUntilChanged: the first value passes, a later one passes when it
\* differs from the last value that passed
Passes(p) == p.last = <<>> \/ p.last[1] # p.timer[1]

\* the timer of debounceTime fires: the value it holds goes downstream
Flush(p) == [timer |-> <<>>, last |-> IF Passes(p) THEN p.timer ELSE p.last, n |-> 0]

\* the viewer's template binds each input's (onChange) to refreshView()
OnChange(g, a, win) ==
  RefreshView(g, Snapshot(currentTurn, currentZoom, currentCoord), a, win)

\* subscribe(_ => this.onChange.emit(this.currentTurn)), and the like for
\* the zoom and for each coordinate
DebounceExpire(a) ==
  /\ a \in Axes /\ pipe[a].timer # <<>>
  /\ pipe' = [pipe EXCEPT ![a] = Flush(@)]
  /\ committed' = [committed EXCEPT ![a] = Cur(a)]
  /\ LET g == IF Passes(pipe[a]) THEN OnChange(Viewer, a, pipe[a].n) ELSE Viewer
     IN /\ WithinCaps(g) /\ SetViewer(g)
        /\ tally' = Tallied(0, IF Passes(pipe[a]) /\ activeSimulation THEN 1 ELSE 0,
                            Len(g.renderReqs) - Len(renderReqs),
                            IF activeSimulation THEN {CommittedSnapshot'} ELSE {})
  /\ UNCHANGED <<overtaken, thumbnail, simConfig, axisVars, infoTurn, simReqs,
                 nInputs, nConfirms, probe>>

----------------------------------------------------------------------------
(* TurnInputComponent                                                      *)

\* step without the floor at 0 of its else branch
StepNoFloor(cur, max, stepsize) ==
  IF stepsize > 0
  THEN (IF cur + stepsize <= max THEN cur + stepsize ELSE max)
  ELSE cur + stepsize

\* step without the ceiling at maxTurn of its then branch
StepNoCeiling(cur, max, stepsize) ==
  IF stepsize > 0
  THEN cur + stepsize
  ELSE (IF cur + stepsize >= 0 THEN cur + stepsize ELSE 0)

\* step(stepsize)
Step(cur, max, stepsize) ==
  IF stepsize > 0
  THEN (IF cur + stepsize <= max THEN cur + stepsize ELSE max)
  ELSE (IF cur + stepsize >= 0 THEN cur + stepsize ELSE 0)

\* the turn input's template feeds a changed currentTurn to currentTurnFormControl
FeedTurn(p, old, new) == IF new # old THEN Push(p, new) ELSE p

\* a step button: step(d)
TurnStep(d) ==
  /\ nInputs < MaxInputs
  /\ currentTurn' = Step(currentTurn, maxTurn, d)
  /\ pipe' = [pipe EXCEPT !["turn"] = FeedTurn(@, currentTurn, currentTurn')]
  /\ nInputs' = nInputs + 1
  /\ UNCHANGED <<owed, viewerVars, maxTurn, currentZoom, currentCoord, minCoord, maxCoord,
                 netVars, committed, nConfirms, probe, tally>>

\* the turn field is set to v: the template stores it in currentTurn and
\* currentTurnFormControl.valueChanges carries it; the control's only validator
\* is Validators.required and nothing in the component bounds the value
TurnSetRaw(v) ==
  /\ nInputs < MaxInputs
  /\ v \in RawTurns
  /\ currentTurn' = v
  /\ pipe' = [pipe EXCEPT !["turn"] = Push(@, v)]
  /\ nInputs' = nInputs + 1
  /\ UNCHANGED <<owed, viewerVars, maxTurn, currentZoom, currentCoord, minCoord, maxCoord,
                 netVars, committed, nConfirms, probe, tally>>

----------------------------------------------------------------------------
(* ZoomInputComponent                                                      *)

\* changeZoom(zoomIn), in hundredths: Math.round(currentZoom * 100) / 100
\* leaves a whole number of hundredths as it is
ZoomStep(z, zoomIn) ==
  IF z < 1000 THEN (IF zoomIn THEN z + 10 ELSE z - 10)
  ELSE IF z < 2000 THEN (IF zoomIn THEN z + 100 ELSE z - 100)
  ELSE (IF zoomIn THEN z + 1000 ELSE z - 1000)

\* a zoom button: changeZoom(zoomIn); the template feeds currentZoomFormControl
ChangeZoom(zoomIn) ==
  /\ nInputs < MaxInputs
  /\ currentZoom' = ZoomStep(currentZoom, zoomIn)
  /\ pipe' = [pipe EXCEPT !["zoom"] = Push(@, currentZoom')]
  /\ nInputs' = nInputs + 1
  /\ UNCHANGED <<owed, viewerVars, currentTurn, maxTurn, currentCoord, minCoord, maxCoord,
                 netVars, committed, nConfirms, probe, tally>>

----------------------------------------------------------------------------
(* ViewInputComponent                                                      *)

\* let stepsize = (this.maxCoord.lon - this.minCoord.lon) / 100
StepSize(lo, hi) == (hi - lo) \div StepDivisor

\* the body shared by moveViewHorizontally (on lon) and moveViewVertically (on lat)
MoveCoord(cur, lo, hi, forward) ==
  LET stepsize == StepSize(lo, hi)
  IN IF forward
     THEN (IF cur + stepsize <= hi THEN cur + stepsize ELSE cur)
     ELSE (IF cur - stepsize >= lo THEN cur - stepsize ELSE cur)

\* ArrowRight / ArrowLeft: moveViewHorizontally(moveRight)
MoveViewHorizontally(moveRight) ==
  /\ nInputs < MaxInputs
  /\ currentCoord' = [currentCoord EXCEPT
                        !.lon = MoveCoord(@, minCoord.lon, maxCoord.lon, moveRight)]
  /\ pipe' = [pipe EXCEPT !["lon"] = Push(@, currentCoord'.lon)]
  /\ nInputs' = nInputs + 1
  /\ UNCHANGED <<owed, viewerVars, currentTurn, maxTurn, currentZoom, minCoord, maxCoord,
                 netVars, committed, nConfirms, probe, tally>>

\* ArrowUp / ArrowDown: moveViewVertically(moveUp)
MoveViewVertically(moveUp) ==
  /\ nInputs < MaxInputs
  /\ currentCoord' = [currentCoord EXCEPT
                        !.lat = MoveCoord(@, minCoord.lat, maxCoord.lat, moveUp)]
  /\ pipe' = [pipe EXCEPT !["lat"] = Push(@, currentCoord'.lat)]
  /\ nInputs' = nInputs + 1
  /\ UNCHANGED <<owed, viewerVars, currentTurn, maxTurn, currentZoom, minCoord, maxCoord,
                 netVars, committed, nConfirms, probe, tally>>

----------------------------------------------------------------------------
(* GraphViewerComponent.openSimulationConfigDialog                         *)

\* the dialog closes with a configuration: simConfig = data; simulate(data)
ConfirmConfig(c) ==
  /\ nConfirms < MaxConfirms
  /\ c \in Configs
  /\ simConfig' = <<c>>
  /\ simReqs' = [simReqs EXCEPT ![c] = @ + 1]
  /\ nConfirms' = nConfirms + 1
  /\ UNCHANGED <<owed, overtaken, activeSimulation, refreshing, pending, thumbnail, axisVars, pipe,
                 renderReqs, metaReqs, infoTurn, readers, committed, nInputs, probe, tally>>

\* a response handler that does nothing
OnSimulateResponseNoSession(g, response) == g

\* a response handler that calls refreshView() before it stores the session's values
OnSimulateResponseStale(g, response) ==
  RefreshView([g EXCEPT !.activeSimulation = TRUE],
              Snapshot(currentTurn, currentZoom, currentCoord), "start", 0)

\* the subscription of simulate(data): the session's values, then refreshView()
OnSimulateResponse(g, response) ==
  RefreshView([g EXCEPT !.activeSimulation = TRUE],
              Snapshot(0, DefaultZoom,
                       [lat |-> response.view_center[1], lon |-> response.view_center[2]]),
              "start", 0)

SimulateResponse(c) ==
  /\ c \in Configs /\ simReqs[c] > 0
  /\ simReqs' = [simReqs EXCEPT ![c] = @ - 1]
  /\ LET response == Engine(c)
     IN /\ currentTurn' = 0
        /\ maxTurn' = response.end_time
        /\ currentCoord' = [lat |-> response.view_center[1], lon |-> response.view_center[2]]
        /\ maxCoord' = [lat |-> response.view_bounds.max_lat, lon |-> response.view_bounds.max_lon]
        /\ minCoord' = [lat |-> response.view_bounds.min_lat, lon |-> response.view_bounds.min_lon]
        /\ currentZoom' = DefaultZoom
        /\ LET g == OnSimulateResponse(Viewer, response)
           IN /\ WithinCaps(g) /\ SetViewer(g)
              /\ committed' = [a \in Axes |-> Cur(a)']
              /\ tally' = Tallied(1, 1, Len(g.renderReqs) - Len(renderReqs), {CommittedSnapshot'})
  /\ UNCHANGED <<overtaken, thumbnail, simConfig, pipe, infoTurn, nInputs, nConfirms, probe>>

\* a failure of simulate(data) that ends the session and its refresh
SimulateErrorEndsSession(c) ==
  /\ c \in Configs /\ simReqs[c] > 0
  /\ simReqs' = [simReqs EXCEPT ![c] = @ - 1]
  /\ activeSimulation' = FALSE
  /\ refreshing' = FALSE
  /\ UNCHANGED <<owed, overtaken, pending, thumbnail, simConfig, axisVars, pipe, renderReqs,
                 metaReqs, infoTurn, readers, committed, nInputs, nConfirms, probe, tally>>

\* simulate(data) fails: the subscription has no error callback
SimulateError(c) ==
  /\ c \in Configs /\ simReqs[c] > 0
  /\ simReqs' = [simReqs EXCEPT ![c] = @ - 1]
  /\ UNCHANGED <<owed, overtaken, viewerVars, axisVars, pipe, renderReqs, metaReqs, infoTurn, readers,
                 committed, nInputs, nConfirms, probe, tally>>

----------------------------------------------------------------------------
(* The viewer as a whole                                                   *)

StepSizes == {-1, 1}

NoProbe == [op |-> "none", cur |-> 0, lo |-> 0, hi |-> 0, arg |-> 0, out |-> 0]

\* the fields after construction: undefined flags read as false
ViewerInit ==
  /\ activeSimulation = FALSE
  /\ refreshing = FALSE
  /\ pending = FALSE
  /\ thumbnail = <<>>
  /\ simConfig = <<>>

\* nothing entered any pipeline, nothing was requested
QuietInit ==
  /\ pipe = [a \in Axes |-> [timer |-> <<>>, last |-> <<>>, n |-> 0]]
  /\ renderReqs = <<>>
  /\ metaReqs = [t \in RawTurns |-> 0]
  /\ infoTurn = <<>>
  /\ readers = <<>>
  /\ overtaken = 0
  /\ owed = FALSE
  /\ simReqs = [c \in Configs |-> 0]
  /\ committed = [a \in Axes |-> Cur(a)]
  /\ nInputs = 0
  /\ nConfirms = 0
  /\ probe = NoProbe

\* ZoomInputComponent and ViewInputComponent after construction
ViewInit ==
  /\ currentZoom = DefaultZoom
  /\ currentCoord = [lat |-> 0, lon |-> 0]
  /\ minCoord = [lat |-> 0, lon |-> 0]
  /\ maxCoord = [lat |-> 0, lon |-> 0]

Init ==
  /\ ViewerInit
  /\ currentTurn = 0
  /\ maxTurn = 0
  /\ ViewInit
  /\ QuietInit
  /\ tally = NoTally

Next ==
  \/ \E c \in Configs : ConfirmConfig(c)
  \/ \E c \in Configs : SimulateResponse(c)
  \/ \E c \in Configs : SimulateError(c)
  \/ \E b \in BOOLEAN : MoveViewHorizontally(b)
  \/ \E b \in BOOLEAN : MoveViewVertically(b)
  \/ \E d \in StepSizes : TurnStep(d)
  \/ \E v \in RawTurns : TurnSetRaw(v)
  \/ \E b \in BOOLEAN : ChangeZoom(b)
  \/ \E a \in Axes : DebounceExpire(a)
  \/ \E i \in 1..Len(renderReqs) : RenderSuccess(i)
  \/ \E i \in 1..Len(renderReqs) : RenderFailure(i)
  \/ \E j \in 1..Len(readers) : ReaderLoad(j)
  \/ \E t \in RawTurns : MetaResponse(t)
  \/ \E t \in RawTurns : MetaError(t)

Spec == Init /\ [][Next]_vars

\* the viewer with the tally of refresh requests, fetches and views kept
CountInit ==
  /\ ViewerInit
  /\ currentTurn = 0
  /\ maxTurn = 0
  /\ ViewInit
  /\ QuietInit
  /\ tally = [NoTally EXCEPT !.on = TRUE]

CountSpec == CountInit /\ [][Next]_vars

\* the viewer when every request is answered and none fails
AllSucceedNext ==
  \/ \E c \in Configs : ConfirmConfig(c)
  \/ \E c \in Configs : SimulateResponse(c)
  \/ \E b \in BOOLEAN : MoveViewHorizontally(b)
  \/ \E b \in BOOLEAN : MoveViewVertically(b)
  \/ \E d \in StepSizes : TurnStep(d)
  \/ \E v \in RawTurns : TurnSetRaw(v)
  \/ \E b \in BOOLEAN : ChangeZoom(b)
  \/ \E a \in Axes : DebounceExpire(a)
  \/ \E i \in 1..Len(renderReqs) : RenderSuccess(i)
  \/ \E j \in 1..Len(readers) : ReaderLoad(j)
  \/ \E t \in RawTurns : MetaResponse(t)

AllSucceedSpec == Init /\ [][AllSucceedNext]_vars

----------------------------------------------------------------------------
(* Fairness: every request that was sent is answered or fails, every       *)
(* FileReader fires load, every debounce timer fires.  The user and the    *)
(* configuration dialog owe nothing.                                       *)

FetchCompletes == \E i \in 1..Len(renderReqs) : RenderSuccess(i) \/ RenderFailure(i)
MetaCompletes == \E t \in RawTurns : MetaResponse(t) \/ MetaError(t)
SimulateCompletes == \E c \in Configs : SimulateResponse(c) \/ SimulateError(c)
ReaderCompletes == \E j \in 1..Len(readers) : ReaderLoad(j)
TimerFires == \E a \in Axes : DebounceExpire(a)

FairSpec ==
  /\ Spec
  /\ WF_vars(FetchCompletes)
  /\ WF_vars(MetaCompletes)
  /\ WF_vars(SimulateCompletes)
  /\ WF_vars(ReaderCompletes)
  /\ WF_vars(TimerFires)

----------------------------------------------------------------------------
(* TurnInputComponent.step on its own: any turn in [0, maxTurn], any delta *)

\* largest maxTurn and largest |delta| tried
MaxProbeTurn == 5
MaxDelta == 7

StepInit ==
  /\ ViewerInit
  /\ maxTurn \in 0..MaxProbeTurn
  /\ currentTurn \in 0..maxTurn
  /\ ViewInit
  /\ QuietInit
  /\ tally = NoTally

StepCall(d) ==
  /\ currentTurn' = Step(currentTurn, maxTurn, d)
  /\ probe' = [op |-> "step", cur |-> currentTurn, lo |-> 0, hi |-> maxTurn,
               arg |-> d, out |-> currentTurn']
  /\ UNCHANGED <<viewerVars, maxTurn, currentZoom, currentCoord, minCoord, maxCoord,
                 pipe, netVars, owed, committed, nInputs, nConfirms, tally>>

StepNext == \E d \in (-MaxDelta)..MaxDelta : StepCall(d)

StepSpec == StepInit /\ [][StepNext]_vars

----------------------------------------------------------------------------
(* ZoomInputComponent.changeZoom on its own: any run of zoom buttons from 1  *)

\* zoom button presses in one run: enough to pass 10 and 20 from 1, and 0
MaxZoomCalls == 110

ZoomCall(zoomIn) ==
  /\ nInputs < MaxZoomCalls
  /\ currentZoom' = ZoomStep(currentZoom, zoomIn)
  /\ probe' = [op |-> "zoom", cur |-> currentZoom, lo |-> 0, hi |-> 0,
               arg |-> IF zoomIn THEN 1 ELSE -1, out |-> currentZoom']
  /\ nInputs' = nInputs + 1
  /\ UNCHANGED <<viewerVars, currentTurn, maxTurn, currentCoord, minCoord, maxCoord,
                 pipe, netVars, owed, committed, nConfirms, tally>>

ZoomNext == \E b \in BOOLEAN : ZoomCall(b)

ZoomSpec == Init /\ [][ZoomNext]_vars

----------------------------------------------------------------------------
(* What a step of the viewer did                                           *)

\* this step issued a render request: a request joined the outstanding ones,
\* or a success callback with pending set issued its follow-up
Issued ==
  \/ Len(renderReqs') > Len(renderReqs)
  \/ pending /\ \E i \in 1..Len(renderReqs) : RenderSuccess(i)

\* the request issued last
IssuedReq == renderReqs'[Len(renderReqs')]

----------------------------------------------------------------------------
(* C1..C10                                                                 *)

\* C1: in every reachable state at most one render fetch is outstanding
C1_SingleFlight == Len(renderReqs) <= 1

\* C1: a refresh was requested while a fetch was outstanding (pending is set) and
\* that fetch is still the only one
C1_Witness == Len(renderReqs) = 1 /\ pending /\ owed /\ nInputs > 0

\* C2: a refresh requested during a fetch is never dropped: provided every fetch
\* completes, a render fetch is issued after it without further user input
C2_NeverDropped == owed ~> ~owed

\* C3: while a fetch is outstanding and refreshes were requested during it, no
\* step issues another fetch before it resolves, and the step that resolves it
\* leaves exactly one fetch outstanding, the follow-up
C3_Coalescing ==
  [][(owed /\ Len(renderReqs) = 1) =>
       \/ renderReqs' = renderReqs /\ ~Issued
       \/ Len(renderReqs') = 1 /\ Issued /\ renderReqs'[1].via = "followup"]_vars

\* C4: a render fetch that fails with pending set clears pending and issues the
\* follow-up fetch at once, with the values current at that moment
C4_FailureHonorsPending ==
  [][\A i \in 1..Len(renderReqs) :
       (RenderFailure(i) /\ pending) =>
         /\ ~pending'
         /\ Len(renderReqs') = Len(renderReqs)
         /\ IssuedReq.via = "followup"
         /\ IssuedReq.snap = Snapshot(currentTurn, currentZoom, currentCoord)]_vars

C6_DisplayInIssueOrder ==
  [][\A j \in 1..Len(readers) : ReaderLoad(j) => j > overtaken]_vars

C8_NotifyIffChanged ==
  [][\A a \in Axes :
       DebounceExpire(a) => (Passes(pipe[a]) <=> pipe[a].timer[1] # committed[a])]_vars

\* C9: for every turn in [0, maxTurn] and every delta, step(delta) sets
\* currentTurn to min(maxTurn, max(0, currentTurn + delta))
C9_StepClamps ==
  probe.op = "step" => probe.out = Min(probe.hi, Max(0, probe.cur + probe.arg))

\* C9: a step that ran past maxTurn, and was held at it
C9_Witness ==
  /\ probe.op = "step" /\ probe.arg > 0 /\ probe.cur + probe.arg > probe.hi
  /\ currentTurn = maxTurn /\ maxTurn > 0

\* C10: a keyboard move whose target lies outside [minCoord, maxCoord] leaves the
\* moved coordinate on the nearest bound
C10_MoveClampsToBound ==
  [][/\ \A b \in BOOLEAN :
          MoveViewHorizontally(b) =>
            LET s == StepSize(minCoord.lon, maxCoord.lon)
                target == IF b THEN currentCoord.lon + s ELSE currentCoord.lon - s
            IN /\ target > maxCoord.lon => currentCoord'.lon = maxCoord.lon
               /\ target < minCoord.lon => currentCoord'.lon = minCoord.lon
     /\ \A b \in BOOLEAN :
          MoveViewVertically(b) =>
            LET s == StepSize(minCoord.lat, maxCoord.lat)
                target == IF b THEN currentCoord.lat + s ELSE currentCoord.lat - s
            IN /\ target > maxCoord.lat => currentCoord'.lat = maxCoord.lat
               /\ target < minCoord.lat => currentCoord'.lat = minCoord.lat]_vars

----------------------------------------------------------------------------
(* C11..C20                                                                *)

\* C11: while a session is active the turn lies in [0, maxTurn] and the center
\* lies inside the session's coordinate bounds
C11_WithinBounds ==
  activeSimulation =>
    /\ 0 <= currentTurn /\ currentTurn <= maxTurn
    /\ minCoord.lat <= currentCoord.lat /\ currentCoord.lat <= maxCoord.lat
    /\ minCoord.lon <= currentCoord.lon /\ currentCoord.lon <= maxCoord.lon

\* C12: the handler of a successful simulate response, in one step, makes the
\* session active with turn 0, the engine's center, bounds and end_time and the
\* default zoom, and calls refreshView once: one metadata request for turn 0,
\* and either the render request for exactly these values or, during a fetch,
\* pending
C12_SessionStart ==
  [][\A c \in Configs :
       SimulateResponse(c) =>
         LET r == Engine(c)
             center == [lat |-> r.view_center[1], lon |-> r.view_center[2]]
         IN /\ activeSimulation'
            /\ currentTurn' = 0 /\ maxTurn' = r.end_time
            /\ currentCoord' = center
            /\ minCoord' = [lat |-> r.view_bounds.min_lat, lon |-> r.view_bounds.min_lon]
            /\ maxCoord' = [lat |-> r.view_bounds.max_lat, lon |-> r.view_bounds.max_lon]
            /\ currentZoom' = DefaultZoom
            /\ metaReqs' = [metaReqs EXCEPT ![0] = @ + 1]
            /\ IF refreshing
               THEN renderReqs' = renderReqs /\ pending' /\ refreshing'
               ELSE /\ renderReqs' = Append(renderReqs,
                                            [snap |-> Snapshot(0, DefaultZoom, center),
                                             via |-> "start", win |-> 0])
                    /\ refreshing' /\ pending' = pending]_vars

\* C12: a session was on display and a second configuration (the one with
\* end_time 1) was answered since: its first fetch is outstanding and carries
\* turn 0, the default zoom and the new center
C12_Witness ==
  /\ nConfirms = 2 /\ thumbnail # <<>> /\ maxTurn = 1
  /\ Len(renderReqs) = 1 /\ renderReqs[1].via = "start"
  /\ renderReqs[1].snap = Snapshot(0, DefaultZoom, currentCoord)
  /\ currentCoord = [lat |-> Engine(2).view_center[1], lon |-> Engine(2).view_center[2]]

\* C13: every session start resets the flags before it requests the first
\* refresh, so that this refresh issues the session's first fetch and leaves
\* pending clear, whatever the flags were
C13_FlagsResetAtStart ==
  [][\A c \in Configs :
       SimulateResponse(c) =>
         /\ Len(renderReqs') = Len(renderReqs) + 1
         /\ renderReqs'[Len(renderReqs')].via = "start"
         /\ refreshing' /\ ~pending']_vars

\* C14: while no session is active no render request and no metadata request is
\* outstanding and both flags are clear
C14_NoFetchWhileInactive ==
  ~activeSimulation =>
    /\ renderReqs = <<>> /\ BagCount(metaReqs) = 0
    /\ ~refreshing /\ ~pending

\* C14: before any session an axis has emitted a change notification, and so
\* refreshView was called
C14_Witness ==
  /\ ~activeSimulation /\ simConfig = <<>>
  /\ \E a \in Axes : pipe[a].last # <<>>

\* C15: a failed metadata request changes neither flag, no outstanding render
\* request, no FileReader and no image
C15_MetaFailureIsolated ==
  [][\A t \in RawTurns :
       MetaError(t) => UNCHANGED <<refreshing, pending, renderReqs, readers, thumbnail>>]_vars

\* C15: every metadata request of the session failed (none is outstanding, none
\* was ever applied) and the image of turn 0 is on display
C15_Witness ==
  /\ activeSimulation /\ infoTurn = <<>> /\ BagCount(metaReqs) = 0
  /\ thumbnail = <<[turn |-> 0]>>

\* C16: a metadata response is applied only when the turn it was fetched for is
\* the committed turn at its arrival; otherwise the displayed metadata stays
C16_MetaKeyedByTurn ==
  [][\A t \in RawTurns :
       MetaResponse(t) => infoTurn' = IF t = committed["turn"] THEN <<t>> ELSE infoTurn]_vars

\* C17: a step issues a metadata request only if it issues a render request
\* too, and then one metadata request, for the turn of that render request
C17_MetaOnlyWithRender ==
  [][metaReqs' # metaReqs /\ BagCount(metaReqs') > BagCount(metaReqs) =>
       /\ Issued
       /\ metaReqs' = [metaReqs EXCEPT ![IssuedReq.snap.turn] = @ + 1]]_vars

\* C18, as claimed: the render fetches issued so far are at most as many as the
\* distinct committed view states seen so far, each session's own
C18_AtMostDistinct == tally.issued <= Cardinality(tally.seen)

\* C18, amended: the render fetches issued so far are at most as many as the
\* refresh requests made so far by session starts and axis notifications
C18_AtMostRequests == tally.issued <= tally.requests

\* C18: two refresh requests were made during the first fetch and one follow-up
\* was issued for both
C18_Witness ==
  /\ tally.on /\ tally.requests = 3 /\ tally.issued = 2
  /\ Len(renderReqs) = 1 /\ renderReqs[1].via = "followup"

\* C19: step(+1) at turn = maxTurn, and step(-1) at turn = 0, leave the turn
\* and every pipeline as they are and request nothing
C19_StepAtBoundIsSilent ==
  [][\A d \in StepSizes :
       (TurnStep(d) /\ ((d = 1 /\ currentTurn = maxTurn) \/ (d = -1 /\ currentTurn = 0))) =>
         /\ currentTurn' = currentTurn
         /\ UNCHANGED <<pipe, renderReqs, metaReqs, refreshing, pending>>]_vars

\* C19: in a session, of two raw inputs one alone entered a pipeline (the turn's)
\* and no pipeline has emitted: the other was a step at a bound, and the turn is
\* at maxTurn
C19_Witness ==
  /\ activeSimulation /\ nInputs = 2 /\ maxTurn > 0 /\ currentTurn = maxTurn
  /\ pipe["turn"].n = 1
  /\ \A a \in Axes : pipe[a].last = <<>> /\ (a # "turn" => pipe[a].n = 0)

\* C20: a failed render fetch issues nothing, and while no fetch is outstanding
\* only a session start or an axis notification issues one
C20_NoRetry ==
  [][/\ \A i \in 1..Len(renderReqs) :
          RenderFailure(i) => renderReqs' = RemoveAt(renderReqs, i)
     /\ (Issued /\ renderReqs = <<>>) => IssuedReq.via \in Axes \cup {"start"}]_vars

\* C20: the session's first fetch failed with pending clear, and nothing was
\* fetched since
C20_Witness ==
  /\ activeSimulation /\ ~refreshing /\ ~pending
  /\ renderReqs = <<>> /\ readers = <<>> /\ thumbnail = <<>>
  /\ \A a \in Axes : pipe[a].timer = <<>>

----------------------------------------------------------------------------
(* C21..C30                                                                *)

\* the session values in effect are those the engine returned for configuration c
SessionIs(c) ==
  /\ maxTurn = Engine(c).end_time
  /\ minCoord = [lat |-> Engine(c).view_bounds.min_lat, lon |-> Engine(c).view_bounds.min_lon]
  /\ maxCoord = [lat |-> Engine(c).view_bounds.max_lat, lon |-> Engine(c).view_bounds.max_lon]

\* C21: an active session stays active; the session becomes active, and maxTurn
\* and the bounds change, only in the handler of a simulate response, which
\* leaves the session active with the values of that one response
C21_SessionMonotone ==
  [][/\ activeSimulation => activeSimulation'
     /\ (activeSimulation' # activeSimulation \/ <<maxTurn, minCoord, maxCoord>>' # <<maxTurn, minCoord, maxCoord>>)
          => \E c \in Configs : SimulateResponse(c)
     /\ \A c \in Configs :
          SimulateResponse(c) =>
            /\ activeSimulation' /\ SessionIs(c)'
            /\ currentTurn' = 0 /\ currentZoom' = DefaultZoom
            /\ currentCoord' = [lat |-> Engine(c).view_center[1], lon |-> Engine(c).view_center[2]]]_vars

\* C21: the session of configuration 1 has replaced that of configuration 2, whose
\* first fetch is still outstanding
C21_Witness ==
  /\ activeSimulation /\ SessionIs(1) /\ nConfirms = 2
  /\ Len(renderReqs) = 1 /\ renderReqs[1].via = "start"
  /\ renderReqs[1].snap.lon = Engine(2).view_center[2]
  /\ pending

\* C22: no step of the refresh coordinator (a notification's refreshView call,
\* the success callback with its follow-up, the error callback) changes the
\* turn, the zoom, the center, maxTurn or the bounds
C22_CoordinatorReadsOnly ==
  [][(\/ \E i \in 1..Len(renderReqs) : RenderSuccess(i) \/ RenderFailure(i)
      \/ \E a \in Axes : DebounceExpire(a))
       => UNCHANGED axisVars]_vars

\* C22: a follow-up was issued when the zoom was other than the default, and the
\* values it carries are still those of the inputs
C22_Witness ==
  /\ Len(renderReqs) = 1 /\ renderReqs[1].via = "followup"
  /\ currentZoom # DefaultZoom
  /\ renderReqs[1].snap = Snapshot(currentTurn, currentZoom, currentCoord)

\* C23: the zoom is above 0 after any run of changeZoom calls from 1
C23_ZoomPositive == currentZoom > 0

\* C24: when every request was answered and none failed, and nothing is
\* outstanding, the displayed metadata and the displayed image are of one turn
C24_MetaMatchesImage ==
  (/\ renderReqs = <<>> /\ readers = <<>> /\ BagCount(metaReqs) = 0
   /\ thumbnail # <<>> /\ infoTurn # <<>>)
    => infoTurn[1] = thumbnail[1].turn

\* C25: refreshing is set exactly when a render request is outstanding
C25_RefreshingIffOutstanding == refreshing <=> renderReqs # <<>>

\* C25: a fetch failed with pending set: no request is outstanding and
\* refreshing is clear
C25_Witness ==
  /\ activeSimulation /\ pending /\ ~refreshing /\ renderReqs = <<>>

\* C26: a step that changes the turn, in a session, commits the turn and
\* requests the refresh in the step itself
C26_StepCommitsAtOnce ==
  [][\A d \in StepSizes :
       (TurnStep(d) /\ activeSimulation /\ currentTurn' # currentTurn) =>
         /\ committed'["turn"] = currentTurn'
         /\ metaReqs' # metaReqs
         /\ (pending' \/ renderReqs' # renderReqs)]_vars

\* C27: before any session a turn step changes the turn by the step, and a
\* keyboard move changes its coordinate by the move's step
C27_NoClampBeforeSession ==
  [][~activeSimulation =>
       /\ \A d \in StepSizes : TurnStep(d) => currentTurn' = currentTurn + d
       /\ \A b \in BOOLEAN :
            MoveViewHorizontally(b) =>
              currentCoord'.lon = currentCoord.lon
                + (IF b THEN 1 ELSE -1) * StepSize(minCoord.lon, maxCoord.lon)
       /\ \A b \in BOOLEAN :
            MoveViewVertically(b) =>
              currentCoord'.lat = currentCoord.lat
                + (IF b THEN 1 ELSE -1) * StepSize(minCoord.lat, maxCoord.lat)]_vars

\* C28: a refresh requested by an axis notification while no session is active
\* is not ignored: it leaves a trace in the viewer
C28_FailFastWhenInactive ==
  [][\A a \in Axes :
       (DebounceExpire(a) /\ Passes(pipe[a]) /\ ~activeSimulation) =>
         ~UNCHANGED <<viewerVars, netVars>>]_vars

\* C29: pending is set only while refreshing is set
C29_PendingImpliesRefreshing == pending => refreshing

\* C30: the success callback issues a follow-up only if refreshView was called
\* while the fetch that succeeded was outstanding
C30_NoSpuriousFollowUp ==
  [][\A i \in 1..Len(renderReqs) :
       (RenderSuccess(i) /\ Len(renderReqs') = Len(renderReqs)) => owed]_vars

----------------------------------------------------------------------------
(* C31..C37                                                                *)

\* a session was restarted while a render fetch was in flight, the user has
\* entered nothing, and the restart's refresh is still deferred
RestartDeferred == activeSimulation /\ nInputs = 0 /\ pending /\ refreshing

\* the follow-up carrying the restarted session's initial view is outstanding
RestartFetched ==
  /\ renderReqs # <<>>
  /\ renderReqs[Len(renderReqs)].via = "followup"
  /\ renderReqs[Len(renderReqs)].snap = Snapshot(0, DefaultZoom, currentCoord)

\* C31: when a session is restarted while a render fetch is in flight, then,
\* every request being answered or failing, a fetch carrying the restarted
\* session's initial view is eventually issued unless the user enters something
C31_RestartFetches == RestartDeferred ~> (RestartFetched \/ nInputs > 0)

\* C32: once two configurations were confirmed and both simulate requests were
\* answered, maxTurn and the bounds are those of the configuration confirmed
\* last, the one in simConfig
C32_LatestConfigWins ==
  (nConfirms = 2 /\ \A c \in Configs : simReqs[c] = 0) => SessionIs(simConfig[1])

\* the render request r was issued by the start of a session other than the
\* one in effect: it carries another configuration's center
OfPreviousSession(r) ==
  /\ r.via = "start"
  /\ \E c \in Configs :
       SessionIs(c) /\ <<r.snap.lat, r.snap.lon>> # Engine(c).view_center

\* C33: the answer to a render fetch issued under a previous session starts no
\* FileReader, so that its image is never put on display
C33_NoImageOfPreviousSession ==
  [][\A i \in 1..Len(renderReqs) :
       (RenderSuccess(i) /\ OfPreviousSession(renderReqs[i])) => readers' = readers]_vars

\* C34: every render fetch issued so far, and the follow-up that pending still
\* announces, is paid for by a refresh request of its own made by a session
\* start or an axis notification
C34_FetchesBackedByRequests ==
  tally.issued + (IF pending THEN 1 ELSE 0) <= tally.requests

\* C34: the session's first fetch failed after one more refresh request was
\* deferred during it: two requests, one fetch, pending left set
C34_Witness ==
  /\ tally.on /\ tally.requests = 2 /\ tally.issued = 1
  /\ pending /\ ~refreshing /\ renderReqs = <<>>

\* the viewer driven by the configuration dialog and the turn's step buttons
\* alone: every refresh request reaches refreshView from a session start or
\* from the turn input's notification
TurnNext ==
  \/ \E c \in Configs : ConfirmConfig(c)
  \/ \E c \in Configs : SimulateResponse(c)
  \/ \E c \in Configs : SimulateError(c)
  \/ \E d \in StepSizes : TurnStep(d)
  \/ \E a \in Axes : DebounceExpire(a)
  \/ \E i \in 1..Len(renderReqs) : RenderSuccess(i)
  \/ \E i \in 1..Len(renderReqs) : RenderFailure(i)
  \/ \E j \in 1..Len(readers) : ReaderLoad(j)
  \/ \E t \in RawTurns : MetaResponse(t)
  \/ \E t \in RawTurns : MetaError(t)

\* ... where every request is answered or fails, every FileReader fires load
\* and every debounce timer fires
TurnFairSpec ==
  /\ Init /\ [][TurnNext]_vars
  /\ WF_vars(FetchCompletes)
  /\ WF_vars(MetaCompletes)
  /\ WF_vars(SimulateCompletes)
  /\ WF_vars(ReaderCompletes)
  /\ WF_vars(TimerFires)

\* no fetch is outstanding and refreshing is clear
Quiescent == renderReqs = <<>> /\ ~refreshing

\* C35: a follow-up that no refresh request was deferred behind issues no
\* further fetch when it succeeds, and, every request being answered or
\* failing, the coordinator reaches and keeps a state with no fetch outstanding
\* and refreshing clear
C35_Quiescence ==
  /\ [][\A i \in 1..Len(renderReqs) :
          (RenderSuccess(i) /\ renderReqs[i].via = "followup" /\ ~owed)
            => (renderReqs' = <<>> /\ ~refreshing' /\ ~pending')]_vars
  /\ <>[]Quiescent

\* C35: every input and every confirmation was made, every timer fired and
\* every request was answered; the last image is on display and nothing is
\* outstanding
C35_Witness ==
  /\ activeSimulation /\ nInputs = MaxInputs /\ nConfirms = MaxConfirms
  /\ \A c \in Configs : simReqs[c] = 0
  /\ \A a \in Axes : pipe[a].timer = <<>>
  /\ Quiescent /\ ~pending /\ readers = <<>> /\ thumbnail # <<>>

\* C36: a simulate request that fails changes neither the session status nor
\* maxTurn, the bounds, the turn, the center or the zoom, nor refreshing or
\* pending, and requests nothing
C36_SimulateFailureInert ==
  [][\A c \in Configs :
       SimulateError(c) =>
         UNCHANGED <<activeSimulation, refreshing, pending, thumbnail, axisVars,
                     renderReqs, metaReqs, readers, owed>>]_vars

\* C36: the only simulate request made has failed: no session, nothing fetched
C36_Witness ==
  /\ nConfirms = 1 /\ simConfig # <<>> /\ \A c \in Configs : simReqs[c] = 0
  /\ ~activeSimulation /\ renderReqs = <<>> /\ BagCount(metaReqs) = 0

\* C37: from the zoom reached, changeZoom(true) then changeZoom(false) gives
\* the zoom back, and so does changeZoom(false) then changeZoom(true)
C37_ZoomRoundTrip ==
  /\ ZoomStep(ZoomStep(currentZoom, TRUE), FALSE) = currentZoom
  /\ ZoomStep(ZoomStep(currentZoom, FALSE), TRUE) = currentZoom

====
